---- MODULE Spec2Model ----
(***************************************************************************)
(* Limitless -> Notion sync service (src/index.js).                        *)
(*                                                                         *)
(* State: the two persisted files (.last-seen-state.json and               *)
(* .notion-schema-cache.json), the process (startPolling), the in-flight   *)
(* invocations of processNewLifelogs with their locals, the two global     *)
(* one-time logging flags, and the environment the service talks to: the   *)
(* starred lifelogs upstream, the pages created in the destination, the    *)
(* destination's live schema and the wall clock.                           *)
(*                                                                         *)
(* Timestamps are ISO-8601 strings in the code, compared with the string   *)
(* order of JavaScript; they are modelled by naturals in the same order,   *)
(* with 0 standing for an absent (undefined) field.  The wall clock is     *)
(* counted in milliseconds, as Date.now() is.                              *)
(***************************************************************************)
EXTENDS Integers, Sequences, FiniteSets, TLC

\* ---------------------------------------------------------------- bounds
NumRecords == 2
MaxTime == 3
MaxClock == 3600003
MaxInFlight == 2
MaxDiagnostics == 2

\* ------------------------------------------------------ program constants
FreshnessMs == 3600000
Limit == 10
NoTimestamp == 0
NoSchema == 0

Ids == 1..NumRecords
Slots == 1..MaxInFlight
Times == 1..MaxTime

\* The field values a lifelog may carry (0: the field is absent).
UpdatedAts == {NoTimestamp, MaxTime}
EndTimes == {NoTimestamp, 2}
StartTimes == {NoTimestamp, 1}
Lifelogs == [updatedAt : UpdatedAts, endTime : EndTimes, startTime : StartTimes]

\* The destination schemas: a sequence of properties (name, type), in the
\* key order of database.properties.
SchemaCatalogue ==
    << << [name |-> "Name", type |-> "title"],
          [name |-> "Notes", type |-> "rich_text"] >>,
       << [name |-> "Title", type |-> "title"],
          [name |-> "Tags", type |-> "multi_select"],
          [name |-> "Body", type |-> "rich_text"] >>,
       << >>,
       << [name |-> "Name", type |-> "title"],
          [name |-> "Title", type |-> "rich_text"] >> >>
SchemaIds == DOMAIN SchemaCatalogue
EmptySchema == CHOOSE k \in SchemaIds : SchemaCatalogue[k] = << >>

\* The title, markdown and text a lifelog may carry ("": absent or empty,
\* which the || of JavaScript treats alike).
Contents == [title : {"", "T"}, markdown : {"", "M"}, text : {"", "X"}]
TitledMarkdown == [title |-> "T", markdown |-> "M", text |-> ""]

\* The shapes of a successful response body of GET /v1/lifelogs.
RecognizedShapes ==
    {"array", "data.lifelogs", "lifelogs", "data", "results", "items"}
Shapes == RecognizedShapes \cup {"otherObject", "nonObject"}
ObjectShapes == Shapes \ {"nonObject"}

VARIABLES
    procPc,           \* startPolling: "boot", "startup", "polling", "exited"
    exitCode,         \* "none", "0", "1", "signal"
    databaseSchema,   \* the schema startPolling holds (NoSchema: undefined)
    stateFile,        \* .last-seen-state.json
    persistedMax,     \* history: the greatest lastSeenTime the file has held
    schemaCacheFile,  \* .notion-schema-cache.json
    upstream,         \* the starred lifelogs of the source, by id
    content,          \* their title, markdown and text
    sourceShapes,     \* the shapes of body the source answers with
    liveSchema,       \* database.properties of the destination (NoSchema: absent)
    clock,            \* Date.now()
    created,          \* the lifelogs a page was created for in the destination
    pc,               \* per invocation of processNewLifelogs: its position
    lastSeenTime,     \* its local lastSeenTime
    lifelogs,         \* its local lifelogs (ids, in the order fetched)
    idx,              \* the position of the for loop in lifelogs
    maxTimestamp,     \* its local maxTimestamp
    processedCount,   \* its local processedCount
    results,          \* history: the map+write attempts of the loop so far
    posted,           \* history: the properties of its last POST /v1/pages
    outcome,          \* history: how the invocation ended
    warningShown,     \* global._limitlessApiWarningShown
    diagnostics,      \* history: unexpected-response warnings of this process
    lastGet           \* history: the last call of fetchNotionDatabaseSchema

procVars == <<procPc, exitCode, databaseSchema>>
envVars == <<upstream, content, sourceShapes, liveSchema>>
cycleVars == <<pc, lastSeenTime, lifelogs, idx, maxTimestamp, processedCount,
               results, posted, outcome>>
vars == <<procPc, exitCode, databaseSchema, stateFile, persistedMax,
          schemaCacheFile, upstream, content, liveSchema, clock, created, pc,
          lastSeenTime, lifelogs, idx, maxTimestamp, processedCount, results,
          posted, outcome, warningShown, diagnostics, lastGet, sourceShapes>>

\* ------------------------------------------------------------ the files
NoStateFile == [exists |-> FALSE, lastSeenTime |-> NoTimestamp]
StateOf(timestamp) == [exists |-> TRUE, lastSeenTime |-> timestamp]

NoCacheFile ==
    [kind |-> "absent", schema |-> NoSchema, hasTimestamp |-> FALSE, timestamp |-> 0]
CorruptCacheFile ==
    [kind |-> "corrupt", schema |-> NoSchema, hasTimestamp |-> FALSE, timestamp |-> 0]
CacheEntry(schema, timestamp) ==
    [kind |-> "entry", schema |-> schema, hasTimestamp |-> TRUE,
     timestamp |-> timestamp]

NoPost == [called |-> FALSE, fallback |-> FALSE, properties |-> << >>]

NoGet ==
    [called |-> FALSE, cache |-> NoCacheFile, now |-> 0, liveFetch |-> FALSE,
     ok |-> FALSE, returned |-> NoSchema]

\* ----------------------------------------------------- pure helper code
Min(a, b) == IF a <= b THEN a ELSE b
Max(a, b) == IF a >= b THEN a ELSE b

SeqToSet(s) == {s[i] : i \in 1..Len(s)}

\* A wrong priority: startTime first.
StartTimeFirst(lifelog) ==
    IF lifelog.startTime # NoTimestamp THEN lifelog.startTime
    ELSE IF lifelog.endTime # NoTimestamp THEN lifelog.endTime
    ELSE lifelog.updatedAt

\* line 421: lifelog.updatedAt || lifelog.endTime || lifelog.startTime
EffectiveTimestamp(lifelog) ==
    IF lifelog.updatedAt # NoTimestamp THEN lifelog.updatedAt
    ELSE IF lifelog.endTime # NoTimestamp THEN lifelog.endTime
    ELSE lifelog.startTime

\* new Date().toISOString(): the clock reading as a timestamp.  ISO-8601
\* strings in UTC are ordered as the instants they denote.
ToISOString(ms) == ms

\* The stored value ignored.
LoadedNow(state, now) == ToISOString(now)

\* line 50: state.lastSeenTime || new Date().toISOString()
LoadedLastSeenTime(state, now) ==
    IF state.lastSeenTime # NoTimestamp THEN state.lastSeenTime
    ELSE ToISOString(now)

\* The maximum started from nothing.
InitialMaxEmpty(lastSeen) == NoTimestamp

\* line 406: let maxTimestamp = lastSeenTime
InitialMaxTimestamp(lastSeen) == lastSeen

\* The last timestamp taken instead of the latest.
TrackLast(maxSoFar, lifelogTimestamp) == lifelogTimestamp

\* lines 422-424: if (lifelogTimestamp && lifelogTimestamp > maxTimestamp)
TrackLatest(maxSoFar, lifelogTimestamp) ==
    IF lifelogTimestamp # NoTimestamp /\ lifelogTimestamp > maxSoFar
    THEN lifelogTimestamp
    ELSE maxSoFar

\* The save taken whatever was processed.
ShouldSaveAlways(count) == count >= 0

\* line 432: if (processedCount > 0)
ShouldSave(count) == count > 0

\* The first failure ends the loop.
BreakAfterFailure(i, n) == n + 1

\* lines 409, 425-428: the catch of the loop body continues with the next lifelog
NextIndexAfterFailure(i, n) == i + 1

\* The threshold itself taken as fresh.
IsFreshInclusive(now, timestamp) == now - timestamp <= FreshnessMs

\* line 161: Date.now() - cacheData.timestamp < 3600000
IsFresh(now, timestamp) == now - timestamp < FreshnessMs

\* line 182: database.properties || {}
PropertiesOrEmpty(properties) ==
    IF properties = NoSchema THEN EmptySchema ELSE properties

\* lines 74-78: GET /v1/lifelogs?isStarred=true&start=<startTime>&direction=asc
\* &limit=10.  The source returns the starred lifelogs at or after start; a
\* lifelog that carries none of the three timestamps is returned as well.
SourceTime(lifelog) ==
    CASE lifelog.updatedAt # NoTimestamp -> lifelog.updatedAt
      [] lifelog.endTime # NoTimestamp -> lifelog.endTime
      [] OTHER -> lifelog.startTime
Eligible(startTime) ==
    {i \in Ids : \/ SourceTime(upstream[i]) = NoTimestamp
                 \/ SourceTime(upstream[i]) >= startTime}

\* The orders in which the source may list a set of lifelogs.
Orderings(S) ==
    {f \in [1..Cardinality(S) -> S] :
        \A i, j \in 1..Cardinality(S) : i # j => f[i] # f[j]}

\* limit=10
Page(order) == SubSeq(order, 1, Min(Len(order), Limit))

\* lines 105-144: the response body normalised to an array of lifelogs
Normalize(shape, body) ==
    IF shape \in RecognizedShapes THEN body ELSE << >>

\* ------------------------------------------------------ createNotionPage
\* a || b on strings: the empty string is falsy.
Or(a, b) == IF a # "" THEN a ELSE b

\* Object.keys(databaseSchema)
PropertyNames(schema) ==
    {SchemaCatalogue[schema][i].name : i \in DOMAIN SchemaCatalogue[schema]}

TitleValue(text) == [type |-> "title", content |-> text]
RichTextValue(text) == [type |-> "rich_text", content |-> text]

\* lines 313-315: Object.keys(databaseSchema).find(key => ... === 'rich_text');
\* "" when there is none (undefined).
FirstRichText(schema) ==
    LET found == {i \in DOMAIN SchemaCatalogue[schema] :
                     SchemaCatalogue[schema][i].type = "rich_text"}
    IN  IF found = {} THEN ""
        ELSE SchemaCatalogue[schema][CHOOSE i \in found :
                                        \A j \in found : i <= j].name

\* lines 302-326: the basic mapping used when generatePropertyMapping throws.
\* An assignment to a key that is already set replaces its value.
FallbackProperties(lifelog, schema) ==
    LET title == TitleValue(Or(lifelog.title, "Untitled"))
        body == Or(lifelog.markdown, lifelog.text)
        contentProp == FirstRichText(schema)
    IN  IF body # "" /\ contentProp # ""
        THEN [key \in {"Title", contentProp} |->
                 IF key = contentProp THEN RichTextValue(body) ELSE title]
        ELSE [key \in {"Title"} |-> title]

\* lines 263-280: the JSON object the model answers with is parsed and
\* returned as it is: an answer within the schema, or one with a key the
\* schema does not have.
MapperAnswers(schema) ==
    {[key \in PropertyNames(schema) |-> [type |-> "ai", content |-> "ai"]],
     [key \in {"Summary"} |-> RichTextValue("ai")]}

\* lines 292-327: the properties createNotionPage puts in pageData.
MappedProperties(raised, answer, lifelog, schema) ==
    IF raised THEN FallbackProperties(lifelog, schema) ELSE answer

Post(raised, properties) ==
    [called |-> TRUE, fallback |-> raised, properties |-> properties]

\* lines 128-142: the warnings for a body that is none of the shapes: for an
\* object, when global._limitlessApiWarningShown is not set; for any other
\* value, unconditionally.
WarningsLogged(shape, shown) ==
    IF shape = "nonObject" \/ (shape = "otherObject" /\ ~shown) THEN 1 ELSE 0

IdleSlots == {s \in Slots : pc[s] = "idle"}
Running == Slots \ IdleSlots

\* The locals of an invocation of processNewLifelogs that is not in its loop.
NoBatch(s) ==
    /\ lifelogs' = [lifelogs EXCEPT ![s] = << >>]
    /\ idx' = [idx EXCEPT ![s] = 0]
    /\ maxTimestamp' = [maxTimestamp EXCEPT ![s] = NoTimestamp]
    /\ processedCount' = [processedCount EXCEPT ![s] = 0]
    /\ results' = [results EXCEPT ![s] = << >>]
    /\ posted' = [posted EXCEPT ![s] = NoPost]

\* An error of the cycle let through to the process.
ReturnOrExit(s, how) ==
    /\ pc' = [pc EXCEPT ![s] = "idle"]
    /\ outcome' = [outcome EXCEPT ![s] = how]
    /\ procPc' = IF how \in {"loadError", "fetchError", "saveError"} THEN "exited"
                 ELSE IF procPc = "startup" THEN "polling" ELSE procPc
    /\ exitCode' = IF how \in {"loadError", "fetchError", "saveError"} THEN "1"
                   ELSE exitCode
    /\ NoBatch(s)
    /\ UNCHANGED databaseSchema

\* processNewLifelogs returns: the startup invocation (line 464) is followed
\* by setInterval (line 467).  outcome and lastSeenTime stay as the record of
\* the invocation that ended.
Return(s, how) ==
    /\ pc' = [pc EXCEPT ![s] = "idle"]
    /\ outcome' = [outcome EXCEPT ![s] = how]
    /\ procPc' = IF procPc = "startup" THEN "polling" ELSE procPc
    /\ NoBatch(s)
    /\ UNCHANGED <<exitCode, databaseSchema>>

\* The memory of a process that is not running.
NoMemory ==
    /\ databaseSchema' = NoSchema
    /\ warningShown' = FALSE
    /\ diagnostics' = 0
    /\ lastGet' = NoGet
    /\ pc' = [s \in Slots |-> "idle"]
    /\ lastSeenTime' = [s \in Slots |-> NoTimestamp]
    /\ lifelogs' = [s \in Slots |-> << >>]
    /\ idx' = [s \in Slots |-> 0]
    /\ maxTimestamp' = [s \in Slots |-> NoTimestamp]
    /\ processedCount' = [s \in Slots |-> 0]
    /\ results' = [s \in Slots |-> << >>]
    /\ posted' = [s \in Slots |-> NoPost]
    /\ outcome' = [s \in Slots |-> "none"]

\* ------------------------------------------------------------------ Init
\* The ids of the lifelogs are interchangeable and the source may list a
\* batch in any order: the lifelogs are numbered in the order of their fields.
Rank(lifelog) ==
    (lifelog.updatedAt * (MaxTime + 1) + lifelog.endTime) * (MaxTime + 1)
        + lifelog.startTime
Upstreams ==
    {u \in [Ids -> Lifelogs] :
        \A i, j \in Ids : i < j => Rank(u[i]) <= Rank(u[j])}

NoInvocations ==
    /\ pc = [s \in Slots |-> "idle"]
    /\ lastSeenTime = [s \in Slots |-> NoTimestamp]
    /\ lifelogs = [s \in Slots |-> << >>]
    /\ idx = [s \in Slots |-> 0]
    /\ maxTimestamp = [s \in Slots |-> NoTimestamp]
    /\ processedCount = [s \in Slots |-> 0]
    /\ results = [s \in Slots |-> << >>]
    /\ posted = [s \in Slots |-> NoPost]
    /\ outcome = [s \in Slots |-> "none"]

Booting ==
    /\ procPc = "boot"
    /\ exitCode = "none"
    /\ databaseSchema = NoSchema
    /\ warningShown = FALSE
    /\ diagnostics = 0
    /\ lastGet = NoGet
    /\ created = {}
    /\ NoInvocations

\* A launch of the service: any starred lifelogs upstream; neither file yet,
\* or the state file left by an earlier run with the schema cache deleted,
\* or the schema cache just written by a run that got no further.
Init ==
    /\ Booting
    /\ sourceShapes = ObjectShapes
    /\ upstream \in Upstreams
    /\ content = [i \in Ids |-> TitledMarkdown]
    /\ stateFile \in {NoStateFile} \cup {StateOf(t) : t \in Times}
    /\ persistedMax = stateFile.lastSeenTime
    /\ clock = MaxTime - 1
    /\ liveSchema = CHOOSE k \in SchemaIds : TRUE
    /\ schemaCacheFile \in {NoCacheFile, CacheEntry(liveSchema, clock)}
    /\ stateFile.exists => schemaCacheFile = NoCacheFile

\* ------------------------------------------- fetchNotionDatabaseSchema
\* The interval registered before the startup cycle is awaited.
SchemaObtainedTimerFirst(schema, get) ==
    /\ lastGet' = get
    /\ databaseSchema' = schema
    /\ UNCHANGED <<stateFile, persistedMax, envVars, clock, created,
                   lastSeenTime, lifelogs, idx, maxTimestamp, processedCount,
                   results, posted, outcome, warningShown, diagnostics>>
    /\ IF schema = NoSchema
       THEN /\ procPc' = "exited"
            /\ exitCode' = "1"
            /\ pc' = pc
       ELSE /\ procPc' = "polling"
            /\ exitCode' = exitCode
            /\ pc' = [pc EXCEPT ![1] = "load"]

\* line 455 on: what startPolling does with the schema it got.  A schema of
\* undefined makes Object.keys (line 456) throw inside the try: exit(1).
SchemaObtained(schema, get) ==
    /\ lastGet' = get
    /\ databaseSchema' = schema
    /\ UNCHANGED <<stateFile, persistedMax, envVars, clock, created,
                   lastSeenTime, lifelogs, idx, maxTimestamp, processedCount,
                   results, posted, outcome, warningShown, diagnostics>>
    /\ IF schema = NoSchema
       THEN /\ procPc' = "exited"
            /\ exitCode' = "1"
            /\ pc' = pc
       ELSE /\ procPc' = "startup"
            /\ exitCode' = exitCode
            /\ pc' = [pc EXCEPT ![1] = "load"]

\* The failure logged and the startup cycle started all the same.
SchemaFailedCycleStarts(get) ==
    /\ lastGet' = get
    /\ procPc' = "startup"
    /\ pc' = [pc EXCEPT ![1] = "load"]
    /\ UNCHANGED <<exitCode, databaseSchema, stateFile, persistedMax, envVars,
                   clock, created, lastSeenTime, lifelogs, idx, maxTimestamp,
                   processedCount, results, posted, outcome, warningShown, diagnostics>>

\* lines 457-460: the schema could not be obtained.
SchemaFailed(get) ==
    /\ lastGet' = get
    /\ procPc' = "exited"
    /\ exitCode' = "1"
    /\ UNCHANGED <<databaseSchema, stateFile, persistedMax, envVars,
                   clock, created, cycleVars, warningShown, diagnostics>>

\* lines 157-164: the cache file is read and parsed, and is fresh.
CacheUsable ==
    /\ schemaCacheFile.kind = "entry"
    /\ schemaCacheFile.hasTimestamp
    /\ IsFresh(clock, schemaCacheFile.timestamp)

GetRecord(live, ok, returned) ==
    [called |-> TRUE, cache |-> schemaCacheFile, now |-> clock,
     liveFetch |-> live, ok |-> ok, returned |-> returned]

\* lines 161-164: the cached schema is returned.
SchemaFromCache ==
    /\ procPc = "boot"
    /\ CacheUsable
    /\ UNCHANGED schemaCacheFile
    /\ SchemaObtained(schemaCacheFile.schema,
                      GetRecord(FALSE, TRUE, schemaCacheFile.schema))

\* lines 169-192: live fetch, the schema cached with the time of the write.
SchemaLiveFetch ==
    /\ procPc = "boot"
    /\ ~CacheUsable
    /\ schemaCacheFile' = CacheEntry(PropertiesOrEmpty(liveSchema), clock)
    /\ SchemaObtained(PropertiesOrEmpty(liveSchema),
                      GetRecord(TRUE, TRUE, PropertiesOrEmpty(liveSchema)))

\* lines 169-179 and 193-196: the request fails or the response is not ok.
SchemaLiveFetchFails ==
    /\ procPc = "boot"
    /\ ~CacheUsable
    /\ UNCHANGED schemaCacheFile
    /\ SchemaFailed(GetRecord(TRUE, FALSE, NoSchema))

\* lines 185-189 and 193-196: the live fetch succeeds, writing the cache fails.
SchemaCacheWriteFails ==
    /\ procPc = "boot"
    /\ ~CacheUsable
    /\ schemaCacheFile' \in {schemaCacheFile, CorruptCacheFile}
    /\ SchemaFailed(GetRecord(TRUE, FALSE, NoSchema))

\* ---------------------------------------------------- processNewLifelogs
\* The tick dropped while an invocation is in flight.
TimerFiresWhenSettled(s) ==
    /\ procPc = "polling"
    /\ Running = {}
    /\ pc[s] = "idle"
    /\ \A t \in IdleSlots : s <= t
    /\ pc' = [pc EXCEPT ![s] = "load"]
    /\ UNCHANGED <<procVars, stateFile, persistedMax, schemaCacheFile, envVars,
                   clock, created, lastSeenTime, lifelogs, idx, maxTimestamp,
                   processedCount, results, posted, outcome, warningShown, diagnostics,
                   lastGet>>

\* lines 467-469: the interval timer starts an invocation (in the lowest free
\* slot of the model).
TimerFires(s) ==
    /\ procPc = "polling"
    /\ pc[s] = "idle"
    /\ \A t \in IdleSlots : s <= t
    /\ pc' = [pc EXCEPT ![s] = "load"]
    /\ UNCHANGED <<procVars, stateFile, persistedMax, schemaCacheFile, envVars, clock,
                   created, lastSeenTime, lifelogs, idx, maxTimestamp,
                   processedCount, results, posted, outcome, warningShown, diagnostics, lastGet>>

\* The timer fires while no invocation is in flight: every cycle is shorter
\* than the poll interval.
Tick == \E s \in Slots : Running = {} /\ TimerFires(s)

\* lines 46-60 and 381: loadLastSeenTime returns; with no state file it saves
\* the current time first.
LoadLastSeenTime(s) ==
    /\ pc[s] = "load"
    /\ IF stateFile.exists
       THEN /\ lastSeenTime' =
                 [lastSeenTime EXCEPT ![s] = LoadedLastSeenTime(stateFile, clock)]
            /\ stateFile' = stateFile
       ELSE /\ lastSeenTime' = [lastSeenTime EXCEPT ![s] = ToISOString(clock)]
            /\ stateFile' = StateOf(ToISOString(clock))
    /\ persistedMax' = Max(persistedMax, stateFile'.lastSeenTime)
    /\ pc' = [pc EXCEPT ![s] = "fetch"]
    /\ outcome' = [outcome EXCEPT ![s] = "running"]
    /\ NoBatch(s)
    /\ UNCHANGED <<procVars, schemaCacheFile, envVars, clock, created,
                   warningShown, diagnostics, lastGet>>

\* lines 58, 55 and 438-440: reading the state file fails with an error other
\* than ENOENT, or the initial save fails; the outer catch ends the cycle.
LoadFails(s) ==
    /\ pc[s] = "load"
    /\ lastSeenTime' = [lastSeenTime EXCEPT ![s] = NoTimestamp]
    /\ Return(s, "loadError")
    /\ UNCHANGED <<stateFile, persistedMax, schemaCacheFile, envVars, clock, created,
                   warningShown, diagnostics, lastGet>>

\* lines 386, 80-144 and 393-406: the fetch succeeds with a body of some shape.
FetchOk(s) ==
    /\ pc[s] = "fetch"
    /\ \E shape \in sourceShapes, order \in Orderings(Eligible(lastSeenTime[s])) :
          /\ warningShown' = (warningShown \/ shape = "otherObject")
          /\ diagnostics' =
               Min(diagnostics + WarningsLogged(shape, warningShown),
                   MaxDiagnostics)
          /\ LET batch == Normalize(shape, Page(order)) IN
                IF batch = << >>
                THEN Return(s, IF shape \in RecognizedShapes THEN "empty"
                               ELSE "unexpected")
                ELSE /\ pc' = [pc EXCEPT ![s] = "loop"]
                     /\ lifelogs' = [lifelogs EXCEPT ![s] = batch]
                     /\ idx' = [idx EXCEPT ![s] = 1]
                     /\ maxTimestamp' =
                          [maxTimestamp EXCEPT
                             ![s] = InitialMaxTimestamp(lastSeenTime[s])]
                     /\ processedCount' = [processedCount EXCEPT ![s] = 0]
                     /\ UNCHANGED <<procVars, outcome, results, posted>>
    /\ UNCHANGED <<stateFile, persistedMax, schemaCacheFile, envVars, clock, created,
                   lastSeenTime, lastGet>>

\* lines 81-90, 145-148 and 387-391: network error, unparsable body or
\* non-success status.
FetchFails(s) ==
    /\ pc[s] = "fetch"
    /\ Return(s, "fetchError")
    /\ UNCHANGED <<stateFile, persistedMax, schemaCacheFile, envVars, clock, created,
                   lastSeenTime, warningShown, diagnostics, lastGet>>

\* One pass of the loop body: the lifelog handed to createNotionPage and
\* whether the call returned.
Attempt(id, ok) == [id |-> id, ok |-> ok]

\* The loop moves to position i of its batch.
LoopTo(s, i) ==
    /\ idx' = [idx EXCEPT ![s] = i]
    /\ pc' = [pc EXCEPT ![s] = IF i > Len(lifelogs[s]) THEN "decide" ELSE "loop"]

\* lines 292-332: the mapping of the lifelog at idx, generatePropertyMapping
\* throwing or answering, is put in the POST.
MapAndPost(s) ==
    \E raised \in BOOLEAN, answer \in MapperAnswers(databaseSchema) :
        posted' =
          [posted EXCEPT
             ![s] = Post(raised,
                         MappedProperties(raised, answer,
                                          content[lifelogs[s][idx[s]]],
                                          databaseSchema))]

\* The write refused for a lifelog that already has its page.
CreatePageOkOnce(s) ==
    /\ pc[s] = "loop"
    /\ lifelogs[s][idx[s]] \notin created
    /\ MapAndPost(s)
    /\ created' = created \cup {lifelogs[s][idx[s]]}
    /\ maxTimestamp' =
         [maxTimestamp EXCEPT
            ![s] = TrackLatest(@, EffectiveTimestamp(upstream[lifelogs[s][idx[s]]]))]
    /\ processedCount' = [processedCount EXCEPT ![s] = @ + 1]
    /\ results' = [results EXCEPT ![s] = Append(@, Attempt(lifelogs[s][idx[s]], TRUE))]
    /\ LoopTo(s, idx[s] + 1)
    /\ UNCHANGED <<procVars, stateFile, persistedMax, schemaCacheFile, envVars,
                   clock, lastSeenTime, lifelogs, outcome, warningShown, diagnostics, lastGet>>

\* The watermark saved after every lifelog written.
CreatePageOkSaving(s) ==
    /\ pc[s] = "loop"
    /\ MapAndPost(s)
    /\ created' = created \cup {lifelogs[s][idx[s]]}
    /\ maxTimestamp' =
         [maxTimestamp EXCEPT
            ![s] = TrackLatest(@, EffectiveTimestamp(upstream[lifelogs[s][idx[s]]]))]
    /\ stateFile' = StateOf(maxTimestamp'[s])
    /\ persistedMax' = Max(persistedMax, stateFile'.lastSeenTime)
    /\ processedCount' = [processedCount EXCEPT ![s] = @ + 1]
    /\ results' = [results EXCEPT ![s] = Append(@, Attempt(lifelogs[s][idx[s]], TRUE))]
    /\ LoopTo(s, idx[s] + 1)
    /\ UNCHANGED <<procVars, schemaCacheFile, envVars, clock, lastSeenTime,
                   lifelogs, outcome, warningShown, diagnostics, lastGet>>

\* lines 410-424: createNotionPage returns for the lifelog at idx.
CreatePageOk(s) ==
    /\ pc[s] = "loop"
    /\ MapAndPost(s)
    /\ LET id == lifelogs[s][idx[s]] IN
          /\ created' = created \cup {id}
          /\ maxTimestamp' =
               [maxTimestamp EXCEPT
                  ![s] = TrackLatest(@, EffectiveTimestamp(upstream[id]))]
    /\ processedCount' = [processedCount EXCEPT ![s] = @ + 1]
    /\ results' = [results EXCEPT ![s] = Append(@, Attempt(lifelogs[s][idx[s]], TRUE))]
    /\ LoopTo(s, idx[s] + 1)
    /\ UNCHANGED <<procVars, stateFile, persistedMax, schemaCacheFile, envVars, clock,
                   lastSeenTime, lifelogs, outcome, warningShown, diagnostics, lastGet>>

\* lines 416 and 425-428: createNotionPage throws for the lifelog at idx.
CreatePageFails(s) ==
    /\ pc[s] = "loop"
    /\ MapAndPost(s)
    /\ results' = [results EXCEPT ![s] = Append(@, Attempt(lifelogs[s][idx[s]], FALSE))]
    /\ LoopTo(s, NextIndexAfterFailure(idx[s], Len(lifelogs[s])))
    /\ UNCHANGED <<procVars, stateFile, persistedMax, schemaCacheFile, envVars, clock,
                   created, lastSeenTime, lifelogs, maxTimestamp,
                   processedCount, outcome, warningShown, diagnostics, lastGet>>

\* The save skipped when the file already holds a later watermark.
UpdateLastSeenTimeIfLater(s) ==
    /\ pc[s] = "decide"
    /\ ShouldSave(processedCount[s])
    /\ maxTimestamp[s] >= stateFile.lastSeenTime
    /\ stateFile' = StateOf(maxTimestamp[s])
    /\ persistedMax' = Max(persistedMax, stateFile'.lastSeenTime)
    /\ Return(s, "saved")
    /\ UNCHANGED <<schemaCacheFile, envVars, clock, created, lastSeenTime,
                   warningShown, diagnostics, lastGet>>

\* lines 432-434 and 65-68: the watermark is saved.
UpdateLastSeenTime(s) ==
    /\ pc[s] = "decide"
    /\ ShouldSave(processedCount[s])
    /\ stateFile' = StateOf(maxTimestamp[s])
    /\ persistedMax' = Max(persistedMax, stateFile'.lastSeenTime)
    /\ Return(s, "saved")
    /\ UNCHANGED <<schemaCacheFile, envVars, clock, created, lastSeenTime,
                   warningShown, diagnostics, lastGet>>

\* lines 433 and 438-440: writing the state file fails; the outer catch ends
\* the cycle.
SaveFails(s) ==
    /\ pc[s] = "decide"
    /\ ShouldSave(processedCount[s])
    /\ Return(s, "saveError")
    /\ UNCHANGED <<stateFile, persistedMax, schemaCacheFile, envVars, clock, created,
                   lastSeenTime, warningShown, diagnostics, lastGet>>

\* lines 435-437: nothing was processed; the watermark is not saved.
NoneProcessed(s) ==
    /\ pc[s] = "decide"
    /\ ~ShouldSave(processedCount[s])
    /\ Return(s, "noneProcessed")
    /\ UNCHANGED <<stateFile, persistedMax, schemaCacheFile, envVars, clock, created,
                   lastSeenTime, warningShown, diagnostics, lastGet>>

\* ------------------------------------------------------- the environment
\* lines 472-480: SIGINT or SIGTERM ends the process (exit 0 once the handlers
\* are installed, death by the signal before); the files stay.
Signal ==
    /\ procPc \in {"boot", "startup", "polling"}
    /\ exitCode' = IF procPc = "polling" THEN "0" ELSE "signal"
    /\ procPc' = "exited"
    /\ NoMemory
    /\ UNCHANGED <<stateFile, persistedMax, schemaCacheFile, envVars, clock, created>>

\* line 484: the service is started again; the files, the source and the
\* destination are as they were left.
Launch ==
    /\ procPc = "exited"
    /\ procPc' = "boot"
    /\ exitCode' = "none"
    /\ NoMemory
    /\ UNCHANGED <<stateFile, persistedMax, schemaCacheFile, envVars, clock, created>>

\* Time passes while the service is down or between two cycles.
ClockSteps == {FreshnessMs - 1, FreshnessMs}

AdvanceClock ==
    /\ \/ procPc = "exited"
       \/ procPc = "polling" /\ Running = {}
    /\ \E d \in ClockSteps :
          /\ clock + d <= MaxClock
          /\ clock' = clock + d
    /\ UNCHANGED <<procVars, stateFile, persistedMax, schemaCacheFile, envVars, created,
                   cycleVars, warningShown, diagnostics, lastGet>>

\* ---------------------------------------------------------------- Next
Next ==
    \/ SchemaFromCache
    \/ SchemaLiveFetch
    \/ SchemaLiveFetchFails
    \/ SchemaCacheWriteFails
    \/ Tick
    \/ \E s \in Slots : LoadLastSeenTime(s)
    \/ \E s \in Slots : LoadFails(s)
    \/ \E s \in Slots : FetchOk(s)
    \/ \E s \in Slots : FetchFails(s)
    \/ \E s \in Slots : CreatePageOk(s)
    \/ \E s \in Slots : CreatePageFails(s)
    \/ \E s \in Slots : UpdateLastSeenTime(s)
    \/ \E s \in Slots : SaveFails(s)
    \/ \E s \in Slots : NoneProcessed(s)
    \/ Signal

\* One run of the service, from its launch to the signal that ends it.
Spec == Init /\ [][Next]_vars

\* ------------------------------------------------ the schema cache alone
\* The cache files a launch may find: none, an unparsable one, or a parsed
\* entry, left by an earlier run or damaged, with or without its fields.
CacheFiles ==
    {NoCacheFile, CorruptCacheFile}
        \cup {CacheEntry(k, t) : k \in SchemaIds \cup {NoSchema}, t \in {1}}
        \cup {[kind |-> "entry", schema |-> k, hasTimestamp |-> FALSE,
               timestamp |-> 0] : k \in SchemaIds \cup {NoSchema}}

\* Launches over every cache file and live schema, with few lifelogs upstream.
CacheInit ==
    /\ Booting
    /\ sourceShapes = ObjectShapes
    /\ upstream \in {u \in Upstreams :
                       \A i \in Ids : /\ u[i].updatedAt = NoTimestamp
                                      /\ u[i].endTime = NoTimestamp}
    /\ content = [i \in Ids |-> TitledMarkdown]
    /\ stateFile = NoStateFile
    /\ persistedMax = stateFile.lastSeenTime
    /\ clock = MaxTime - 1
    /\ schemaCacheFile \in CacheFiles
    /\ liveSchema \in SchemaIds \cup {NoSchema}

\* The service launched again and again, time passing while it is down and
\* between its cycles.
NextLaunches ==
    \/ Next
    \/ Launch
    \/ AdvanceClock

CacheSpec == CacheInit /\ [][NextLaunches]_vars

\* ---------------------------------------------------- the mapping alone
\* One run over every schema of the catalogue and every content of the first
\* lifelog, the lifelogs carrying no timestamp.
MapInit ==
    /\ Booting
    /\ sourceShapes = ObjectShapes
    /\ upstream \in {u \in Upstreams : \A i \in Ids : Rank(u[i]) = 0}
    /\ content \in {c \in [Ids -> Contents] :
                       \A i \in Ids \ {1} : c[i] = TitledMarkdown}
    /\ stateFile = StateOf(1)
    /\ persistedMax = stateFile.lastSeenTime
    /\ clock = MaxTime - 1
    /\ liveSchema \in SchemaIds
    /\ schemaCacheFile \in {NoCacheFile, CacheEntry(liveSchema, clock)}

MapSpec == MapInit /\ [][Next]_vars

\* ------------------------------------------------- the state file alone
\* A launch over every state file loadLastSeenTime can parse: none, one the
\* service wrote, or one edited by hand that holds no lastSeenTime ("{}").
LoadInit ==
    /\ Booting
    /\ sourceShapes = ObjectShapes
    /\ upstream \in {u \in Upstreams :
                       \A i \in Ids : /\ u[i].endTime = NoTimestamp
                                      /\ u[i].startTime = NoTimestamp}
    /\ content = [i \in Ids |-> TitledMarkdown]
    /\ stateFile \in {NoStateFile, StateOf(NoTimestamp), StateOf(1)}
    /\ persistedMax = stateFile.lastSeenTime
    /\ clock = MaxTime - 1
    /\ liveSchema = CHOOSE k \in SchemaIds : TRUE
    /\ schemaCacheFile \in {NoCacheFile, CacheEntry(liveSchema, clock)}

LoadSpec == LoadInit /\ [][NextLaunches]_vars

\* ------------------------------------------------ the response shapes
\* A run against a source that answers with bodies of every shape, values
\* that are not objects included (null, a string, a number).
ShapeInit ==
    /\ Booting
    /\ sourceShapes = Shapes
    /\ upstream \in {u \in Upstreams :
                       \A i \in Ids : /\ u[i].endTime = NoTimestamp
                                      /\ u[i].startTime = NoTimestamp}
    /\ content = [i \in Ids |-> TitledMarkdown]
    /\ stateFile \in {NoStateFile, StateOf(1)}
    /\ persistedMax = stateFile.lastSeenTime
    /\ clock = MaxTime - 1
    /\ liveSchema = CHOOSE k \in SchemaIds : TRUE
    /\ schemaCacheFile \in {NoCacheFile, CacheEntry(liveSchema, clock)}

ShapeSpec == ShapeInit /\ [][Next]_vars

\* --------------------------------------------------- overlapping cycles
\* lines 467-469: the timer fires while an invocation is still in flight: a
\* cycle that lasts longer than the poll interval.
Overlap == \E s \in Slots : Running # {} /\ TimerFires(s)

NextOverlapping ==
    \/ Next
    \/ Overlap

\* A launch with a state file left at 1 by an earlier run and lifelogs that
\* carry either an updatedAt or an endTime, both after it.
OverlapInit ==
    /\ Booting
    /\ sourceShapes = ObjectShapes
    /\ upstream \in {u \in Upstreams :
                       \A i \in Ids : /\ u[i].startTime = NoTimestamp
                                      /\ (u[i].updatedAt = NoTimestamp)
                                            # (u[i].endTime = NoTimestamp)}
    /\ content = [i \in Ids |-> TitledMarkdown]
    /\ stateFile = StateOf(1)
    /\ persistedMax = stateFile.lastSeenTime
    /\ clock = MaxTime - 1
    /\ liveSchema = CHOOSE k \in SchemaIds : TRUE
    /\ schemaCacheFile \in {NoCacheFile, CacheEntry(liveSchema, clock)}

OverlapSpec == OverlapInit /\ [][NextOverlapping]_vars

\* ------------------------------------------------------ fair scheduling
\* The steps of a service that gets its schema and stays up, with a state
\* file that can be read and written: the timer keeps firing, every step of a
\* cycle is taken, a fetch that is retried eventually returns a batch, and
\* the write of a lifelog that is retried eventually succeeds.
FairNext ==
    \/ SchemaFromCache
    \/ SchemaLiveFetch
    \/ Tick
    \/ \E s \in Slots : LoadLastSeenTime(s)
    \/ \E s \in Slots : FetchOk(s)
    \/ \E s \in Slots : FetchFails(s)
    \/ \E s \in Slots : CreatePageOk(s)
    \/ \E s \in Slots : CreatePageFails(s)
    \/ \E s \in Slots : UpdateLastSeenTime(s)
    \/ \E s \in Slots : NoneProcessed(s)

CreatePageOkFor(id) ==
    \E s \in Slots : pc[s] = "loop" /\ lifelogs[s][idx[s]] = id /\ CreatePageOk(s)

Fairness ==
    /\ WF_vars(FairNext)
    /\ SF_vars(\E s \in Slots : FetchOk(s) /\ pc'[s] = "loop")
    /\ \A id \in Ids : SF_vars(CreatePageOkFor(id))

FairSpec == Init /\ [][FairNext]_vars /\ Fairness

\* ===================================================================
\* Properties
\* ===================================================================
\* The effective timestamp of a lifelog: updatedAt, else endTime, else
\* startTime (NoTimestamp when all three are absent).
ClaimedTimestamp(lifelog) ==
    CASE lifelog.updatedAt # NoTimestamp -> lifelog.updatedAt
      [] lifelog.endTime # NoTimestamp -> lifelog.endTime
      [] OTHER -> lifelog.startTime
TimestampOf(id) == ClaimedTimestamp(upstream[id])

MaxOf(S) == CHOOSE x \in S : \A y \in S : y <= x

Attempted(s) == [i \in 1..Len(results[s]) |-> results[s][i].id]
Succeeded(s) == {results[s][i].id : i \in {j \in 1..Len(results[s]) : results[s][j].ok}}
Failed(s) == {results[s][i].id : i \in {j \in 1..Len(results[s]) : ~results[s][j].ok}}
TimestampsOf(S) == {TimestampOf(id) : id \in S} \ {NoTimestamp}

\* The step in which invocation s, all lifelogs attempted, takes the watermark
\* decision and returns.
DecisionTaken(s) == pc[s] = "decide" /\ pc'[s] = "idle" /\ procPc' # "exited"
\* ... and in which no write of the state file failed.
DecisionKept(s) == DecisionTaken(s) /\ outcome'[s] # "saveError"

\* C1: across polling cycles that do not overlap, the persisted watermark
\* never decreases: every step leaves the state file in place with a
\* lastSeenTime at least as great as before.
C1_WatermarkNeverDecreases ==
    [][stateFile.exists =>
         /\ stateFile'.exists
         /\ stateFile'.lastSeenTime >= stateFile.lastSeenTime]_vars

\* A cycle has saved a watermark above the one it loaded.
C1_Witness ==
    \E s \in Slots :
        /\ pc[s] = "idle"
        /\ outcome[s] = "saved"
        /\ stateFile.lastSeenTime > lastSeenTime[s]

\* C2: after a cycle, every lifelog of its batch whose map+write failed is
\* still returned by a fetch from the persisted watermark.
C2_NeverAdvancesPastFailed ==
    [][\A s \in Slots :
         DecisionTaken(s) =>
           \A id \in Failed(s) :
              \/ TimestampOf(id) = NoTimestamp
              \/ TimestampOf(id) >= stateFile'.lastSeenTime]_vars

C4_OnlyNewRecordsWritten ==
    \A s \in Slots :
        \A id \in Succeeded(s) :
            TimestampOf(id) # NoTimestamp => TimestampOf(id) > lastSeenTime[s]

\* C5: under fair scheduling, a lifelog whose effective timestamp is at or
\* above the watermark a cycle has loaded is eventually written to the
\* destination.
C5_AtLeastOnceDelivery ==
    \A id \in Ids :
        (\E s \in Slots : /\ pc[s] = "fetch"
                          /\ TimestampOf(id) # NoTimestamp
                          /\ TimestampOf(id) >= lastSeenTime[s])
            ~> (id \in created)

\* C6: a cycle whose non-empty batch failed entirely returns without a save:
\* the state file holds the watermark the cycle loaded, as it did throughout
\* the cycle, and the whole batch is returned again by a fetch from it.
C6_AllFailedLeavesWatermark ==
    [][\A s \in Slots :
         /\ (pc[s] = "load" /\ stateFile.exists) => stateFile' = stateFile
         /\ pc[s] \in {"fetch", "loop"} => stateFile' = stateFile
         /\ (DecisionTaken(s) /\ lifelogs[s] # << >> /\ Succeeded(s) = {}) =>
              /\ outcome'[s] = "noneProcessed"
              /\ stateFile' = stateFile
              /\ stateFile = StateOf(lastSeenTime[s])
              /\ SeqToSet(lifelogs[s]) \subseteq
                   Eligible(stateFile'.lastSeenTime)]_vars

\* A cycle has ended with a batch in which nothing succeeded.
C6_Witness ==
    \E s \in Slots :
        /\ pc[s] = "idle"
        /\ outcome[s] = "noneProcessed"
        /\ stateFile = StateOf(lastSeenTime[s])

\* C7: a cycle whose fetch fails returns at once, creating no page and
\* leaving the state file, which holds the watermark the fetch was issued
\* with; the next cycle loads that same watermark.
C7_FetchFailureKeepsWatermark ==
    [][\A s \in Slots :
         /\ (pc[s] = "fetch" /\ outcome'[s] = "fetchError") =>
              /\ pc'[s] = "idle"
              /\ results[s] = << >>
              /\ created' = created
              /\ stateFile' = stateFile
              /\ stateFile = StateOf(lastSeenTime[s])
         /\ (pc[s] = "load" /\ outcome[s] = "fetchError" /\ pc'[s] = "fetch") =>
              /\ lastSeenTime'[s] = lastSeenTime[s]
              /\ stateFile' = stateFile]_vars

\* After a cycle whose fetch failed, the next cycle has loaded its watermark.
C7_Witness ==
    \E s \in Slots :
        /\ pc[s] = "load"
        /\ outcome[s] = "fetchError"
        /\ stateFile = StateOf(lastSeenTime[s])

\* C8: in the loop the lifelogs attempted so far are exactly those before the
\* loop position, once each and in the order fetched; at the watermark
\* decision every lifelog of the batch has been attempted; and a step of the
\* loop leads nowhere but on in the loop or to the decision.
C8_LoopInvariant ==
    \A s \in Slots :
        /\ pc[s] = "loop" =>
             /\ idx[s] \in 1..Len(lifelogs[s])
             /\ Attempted(s) = SubSeq(lifelogs[s], 1, idx[s] - 1)
        /\ pc[s] = "decide" => Attempted(s) = lifelogs[s]

C9_NoTimestampNoAdvance ==
    [][\A s \in Slots :
         /\ (pc[s] = "loop" /\ Len(results'[s]) > Len(results[s])
               /\ TimestampOf(lifelogs[s][idx[s]]) = NoTimestamp) =>
              /\ results'[s][Len(results'[s])].id = lifelogs[s][idx[s]]
              /\ maxTimestamp'[s] = maxTimestamp[s]
         /\ DecisionTaken(s) =>
              \A i \in 1..Len(lifelogs[s]) :
                 TimestampOf(lifelogs[s][i]) = NoTimestamp =>
                    results[s][i].id = lifelogs[s][i]
         /\ (DecisionKept(s) /\ Succeeded(s) # {}
               /\ TimestampsOf(Succeeded(s)) = {}) =>
              stateFile' = StateOf(lastSeenTime[s])]_vars

\* The only successes of a batch are lifelogs without a timestamp.
C9_Witness ==
    \E s \in Slots :
        /\ pc[s] = "decide"
        /\ Succeeded(s) # {}
        /\ TimestampsOf(Succeeded(s)) = {}
        /\ TimestampsOf(Failed(s)) # {}

\* C10: when fetchNotionDatabaseSchema finds a parsed cache entry with a
\* timestamp, then below an age of 3,600,000 ms it returns the entry's schema
\* without a live fetch and leaves the file, and from that age on it fetches
\* live and, on success, returns the fetched schema and has written it to the
\* cache file with the time of the call.
C10_SchemaCacheFreshness ==
    (lastGet.called /\ lastGet.cache.kind = "entry" /\ lastGet.cache.hasTimestamp) =>
        LET age == lastGet.now - lastGet.cache.timestamp
            fetched == IF liveSchema = NoSchema THEN EmptySchema ELSE liveSchema
        IN  /\ age < 3600000 =>
                 /\ ~lastGet.liveFetch
                 /\ lastGet.returned = lastGet.cache.schema
                 /\ schemaCacheFile = lastGet.cache
            /\ age >= 3600000 =>
                 /\ lastGet.liveFetch
                 /\ lastGet.ok =>
                      /\ lastGet.returned = fetched
                      /\ schemaCacheFile = CacheEntry(fetched, lastGet.now)

\* A cache entry aged exactly 3,600,000 ms was replaced by a live fetch of a
\* different schema.
C10_Witness ==
    /\ lastGet.called
    /\ lastGet.cache.kind = "entry"
    /\ lastGet.cache.hasTimestamp
    /\ lastGet.now - lastGet.cache.timestamp = 3600000
    /\ lastGet.liveFetch
    /\ lastGet.ok
    /\ lastGet.returned # lastGet.cache.schema

\* The time at which the schema held by startPolling was fetched live.
SchemaFetchedAt ==
    IF lastGet.liveFetch THEN lastGet.now ELSE lastGet.cache.timestamp

\* C11: every polling cycle runs with a schema whose age at the start of the
\* cycle is below the freshness window of 3,600,000 ms: a cycle that starts
\* an hour or more after the last live fetch has the schema fetched again.
C11_SchemaFreshInEveryCycle ==
    \A s \in Slots :
        pc[s] # "idle" =>
            /\ lastGet.called
            /\ lastGet.ok
            /\ clock - SchemaFetchedAt < 3600000

\* A cache file that is absent, unparsable, or parsed without its schema or
\* its timestamp field.
AbsentOrCorrupted(cache) ==
    \/ cache.kind \in {"absent", "corrupt"}
    \/ cache.kind = "entry" /\ (cache.schema = NoSchema \/ ~cache.hasTimestamp)

\* C12: a call of fetchNotionDatabaseSchema that finds the cache file absent
\* or corrupted fetches live; when it returns, it returns the fetched schema
\* and the process goes on to its startup cycle instead of exiting with 1.
C12_CorruptCacheIsStale ==
    (lastGet.called /\ AbsentOrCorrupted(lastGet.cache)) =>
        /\ lastGet.liveFetch
        /\ lastGet.ok =>
             /\ lastGet.returned = PropertiesOrEmpty(liveSchema)
             /\ databaseSchema = lastGet.returned
             /\ ~(procPc = "exited" /\ exitCode = "1")

\* The outcomes of a cycle that an error ended.
CycleErrors == {"loadError", "fetchError", "saveError"}

\* C13: once startup has succeeded, a step of a cycle ends the process only
\* by a signal; a cycle that fails to load or save the watermark or to fetch
\* returns to idle with the process polling; a lifelog whose mapper or write
\* fails has its step completed within the loop; and whenever the process is
\* polling with no cycle in flight the timer can start the next cycle.
C13_CycleErrorsAreContained ==
    /\ [](procPc = "polling" /\ Running = {} => ENABLED Tick)
    /\ [][\A s \in Slots :
            /\ (pc[s] # "idle" /\ procPc' = "exited") =>
                   exitCode' \in {"0", "signal"}
            /\ (pc[s] # "idle" /\ outcome'[s] \in CycleErrors) =>
                   /\ pc'[s] = "idle"
                   /\ procPc' = "polling"
            /\ (pc[s] = "loop" /\ Len(results'[s]) > Len(results[s])
                  /\ (posted'[s].fallback \/ ~results'[s][Len(results'[s])].ok)) =>
                   /\ posted'[s].called
                   /\ pc'[s] \in {"loop", "decide"}
                   /\ procPc' = procPc]_vars

\* After a cycle that an error of the watermark store ended, the timer has
\* started the next cycle.
C13_Witness ==
    \E s \in Slots :
        /\ procPc = "polling"
        /\ pc[s] = "load"
        /\ outcome[s] \in {"loadError", "saveError"}

\* C14: when fetchNotionDatabaseSchema fails at startup the process exits
\* with code 1 in that step, which leaves the state file, the destination and
\* every invocation of processNewLifelogs untouched; a process that exited
\* with 1 has run no cycle and takes no further step.
C14_SchemaFailureExitsBeforeCycles ==
    /\ [](exitCode = "1" =>
            /\ procPc = "exited"
            /\ NoInvocations
            /\ created = {})
    /\ [][/\ (procPc = "boot" /\ lastGet'.called /\ ~lastGet'.ok) =>
               /\ procPc' = "exited"
               /\ exitCode' = "1"
               /\ UNCHANGED <<stateFile, created, cycleVars>>
          /\ exitCode = "1" => UNCHANGED vars]_vars

\* The live fetch of the schema failed at startup and the process exited.
C14_Witness ==
    /\ lastGet.called
    /\ lastGet.liveFetch
    /\ ~lastGet.ok
    /\ procPc = "exited"
    /\ exitCode = "1"

\* The lifelog of the last POST of invocation s.
LastAttempted(s) == results[s][Len(results[s])].id

\* The first property of the schema that is of type rich_text, if any.
RichTextProperties(schema) ==
    {i \in 1..Len(SchemaCatalogue[schema]) :
        SchemaCatalogue[schema][i].type = "rich_text"}
FirstRichTextProperty(schema) ==
    SchemaCatalogue[schema][CHOOSE i \in RichTextProperties(schema) :
                               \A j \in RichTextProperties(schema) : i <= j].name

\* C15: whenever the mapper raised for a lifelog, the properties posted are
\* a title property holding the lifelog's title ('Untitled' when absent) and,
\* if the lifelog has markdown or text and the schema a rich_text property,
\* the first such property holding that body; nothing else.
C15_FallbackMapping ==
    \A s \in Slots :
        (posted[s].called /\ posted[s].fallback) =>
            LET lifelog == content[LastAttempted(s)]
                properties == posted[s].properties
                body == IF lifelog.markdown # "" THEN lifelog.markdown
                        ELSE lifelog.text
                hasBody == body # "" /\ RichTextProperties(databaseSchema) # {}
                bodyKeys == IF hasBody
                            THEN {FirstRichTextProperty(databaseSchema)}
                            ELSE {}
            IN  /\ \E key \in DOMAIN properties :
                      /\ properties[key].type = "title"
                      /\ properties[key].content =
                            IF lifelog.title # "" THEN lifelog.title
                            ELSE "Untitled"
                      /\ DOMAIN properties = {key} \cup bodyKeys
                /\ \A key \in bodyKeys :
                      /\ key \in DOMAIN properties
                      /\ properties[key] = [type |-> "rich_text", content |-> body]

\* C16: the properties of every POST /v1/pages, from the mapper or from the
\* fallback, have only keys that are property names of the schema the cycle
\* runs with.
C16_PropertiesWithinSchema ==
    \A s \in Slots :
        posted[s].called =>
            \A key \in DOMAIN posted[s].properties :
                \E i \in 1..Len(SchemaCatalogue[databaseSchema]) :
                    SchemaCatalogue[databaseSchema][i].name = key

\* C17: with cycles overlapping, the load and the save of a cycle are never
\* held back by another cycle in flight, and the persisted watermark goes
\* backward exactly by the save of a cycle that loaded its watermark before
\* another cycle saved a later one.
C17_OverlapMovesWatermarkBackward ==
    /\ [](\A s \in Slots :
            /\ pc[s] = "load" => ENABLED LoadLastSeenTime(s)
            /\ (pc[s] = "decide" /\ processedCount[s] > 0) =>
                  ENABLED UpdateLastSeenTime(s))
    /\ [](persistedMax >= stateFile.lastSeenTime)
    /\ [][stateFile'.lastSeenTime < stateFile.lastSeenTime =>
            \E s \in Slots :
                /\ pc[s] = "decide"
                /\ outcome'[s] = "saved"
                /\ lastSeenTime[s] < stateFile.lastSeenTime
                /\ stateFile' = StateOf(maxTimestamp[s])]_vars

\* Every cycle has returned and the state file holds a watermark below one
\* it held before.
C17_Witness ==
    /\ procPc = "polling"
    /\ Running = {}
    /\ stateFile.exists
    /\ stateFile.lastSeenTime < persistedMax

\* C18: with cycles overlapping, a cycle's load returns the watermark of the
\* state file whatever cycles are in flight, and the write of a lifelog is
\* never held back by the page another cycle created for it.
C18_OverlapDoubleProcesses ==
    /\ [](\A s \in Slots : pc[s] = "loop" => ENABLED CreatePageOk(s))
    /\ [][\A s \in Slots :
            (pc[s] = "load" /\ pc'[s] = "fetch") =>
               /\ lastSeenTime'[s] = stateFile.lastSeenTime
               /\ stateFile' = stateFile]_vars

\* Two cycles in flight have loaded the same watermark and each has written
\* the same lifelog, with no write of either failed.
C18_Witness ==
    \E s, t \in Slots :
        /\ s # t
        /\ pc[s] = "decide"
        /\ pc[t] = "decide"
        /\ lastSeenTime[s] = lastSeenTime[t]
        /\ Succeeded(s) \cap Succeeded(t) # {}
        /\ Failed(s) = {}
        /\ Failed(t) = {}

\* C19: a successful startup starts the first cycle in the same step; the
\* process then polls until a signal ends it; and while it polls the timer
\* can start a cycle whether or not earlier cycles are still in flight (as
\* long as the model has a slot left for it).
C19_TickNeverDropped ==
    /\ [](procPc = "startup" =>
            /\ pc[1] # "idle"
            /\ \A s \in Slots \ {1} : pc[s] = "idle")
    /\ []((procPc = "polling" /\ IdleSlots # {}) =>
            ENABLED (\E s \in Slots : TimerFires(s)))
    /\ [][/\ (procPc = "boot" /\ lastGet'.ok /\ databaseSchema' # NoSchema) =>
               /\ procPc' = "startup"
               /\ pc'[1] = "load"
          /\ procPc = "polling" =>
               \/ procPc' = "polling"
               \/ procPc' = "exited" /\ exitCode' = "0"]_vars

\* The timer has started a cycle while an earlier one is in its loop.
C19_Witness ==
    \E s, t \in Slots :
        /\ procPc = "polling"
        /\ pc[s] = "loop"
        /\ pc[t] = "load"

\* C20: when loadLastSeenTime returns, the state file exists and holds the
\* value returned; with no state file before, that value is the current
\* time; with a state file before, the file is left as it was and its value
\* is returned; and a load that follows a cycle that saved nothing returns
\* what that cycle's load returned.
C20_LoadReturnsPersisted ==
    [][\A s \in Slots :
         (pc[s] = "load" /\ pc'[s] = "fetch") =>
            /\ stateFile'.exists
            /\ lastSeenTime'[s] = stateFile'.lastSeenTime
            /\ ~stateFile.exists => lastSeenTime'[s] = clock
            /\ stateFile.exists => stateFile' = stateFile
            /\ outcome[s] \in {"empty", "unexpected", "fetchError",
                              "noneProcessed", "saveError"}
                  => lastSeenTime'[s] = lastSeenTime[s]]_vars

\* C21: a cycle keeps the watermark it loaded until it returns; while it
\* fetches and while it maps and writes its batch the state file is left as
\* it is; and an existing state file is changed only by the step in which a
\* cycle, every lifelog of its batch attempted, saves and returns (so at
\* most once per cycle).
C21_WatermarkSavedOnceAfterBatch ==
    [][/\ \A s \in Slots :
            /\ (pc[s] \in {"fetch", "loop", "decide"} /\ procPc' # "exited") =>
                  lastSeenTime'[s] = lastSeenTime[s]
            /\ pc[s] \in {"fetch", "loop"} =>
                  /\ stateFile' = stateFile
                  /\ pc'[s] # "load"
       /\ (stateFile.exists /\ stateFile' # stateFile) =>
            \E s \in Slots :
                /\ pc[s] = "decide"
                /\ Attempted(s) = lifelogs[s]
                /\ Succeeded(s) # {}
                /\ pc'[s] = "idle"
                /\ outcome'[s] = "saved"
                /\ stateFile' = StateOf(maxTimestamp[s])]_vars

\* A batch of two or more lifelogs is fully attempted, the maximum is above
\* the watermark loaded, and the state file still holds the watermark loaded.
C21_Witness ==
    \E s \in Slots :
        /\ pc[s] = "decide"
        /\ Len(results[s]) >= 2
        /\ maxTimestamp[s] > lastSeenTime[s]
        /\ stateFile = StateOf(lastSeenTime[s])

\* The lifelogs the source holds for a fetch from a watermark.
Answerable(startTime) ==
    {id \in Ids : TimestampOf(id) = NoTimestamp \/ TimestampOf(id) >= startTime}

\* C22: a fetch that starts the loop hands it every lifelog of the response,
\* each once; a response of none of the shapes ends the cycle with nothing
\* written and the state file as it was; and a process logs the warning for
\* an unexpected response at most once.
C22_ResponseNormalization ==
    /\ [](diagnostics <= 1)
    /\ [][\A s \in Slots :
            /\ (pc[s] = "fetch" /\ pc'[s] = "loop") =>
                  /\ SeqToSet(lifelogs'[s]) = Answerable(lastSeenTime[s])
                  /\ Len(lifelogs'[s]) = Cardinality(Answerable(lastSeenTime[s]))
            /\ (pc[s] = "fetch" /\ outcome'[s] = "unexpected") =>
                  /\ pc'[s] = "idle"
                  /\ lifelogs'[s] = << >>
                  /\ created' = created
                  /\ stateFile' = stateFile]_vars

\* C23: the step that starts the startup cycle leaves the timer unregistered;
\* while the startup cycle is in flight it is the only invocation, the timer
\* cannot fire and the state file is changed by that cycle alone; the timer
\* is registered in the step in which the startup cycle returns; and two
\* invocations are in flight only once the process polls.
C23_StartupCycleNeverOverlaps ==
    /\ [](procPc = "startup" =>
            /\ Running = {1}
            /\ ~ENABLED (\E s \in Slots : TimerFires(s)))
    /\ [](Cardinality(Running) >= 2 => procPc = "polling")
    /\ [][/\ (procPc = "boot" /\ pc'[1] # "idle") => procPc' = "startup"
          /\ (procPc = "startup" /\ procPc' = "polling") =>
               /\ pc[1] # "idle"
               /\ Running' = {}
          /\ (procPc = "startup" /\ stateFile' # stateFile) =>
               /\ pc[1] \in {"load", "decide"}
               /\ pc'[1] # pc[1]
          /\ \A s \in Slots :
               (procPc # "boot" /\ pc[s] = "idle" /\ pc'[s] = "load") =>
                  procPc = "polling"]_vars

\* The startup cycle has written a lifelog and is about to save the watermark.
C23_Witness ==
    /\ procPc = "startup"
    /\ pc[1] = "decide"
    /\ processedCount[1] > 0

====
